---- MODULE Spec2Model ----
(***************************************************************************)
(* A model of package webview2runtime (webview2runtime.go) and of the      *)
(* BootstrapRuntime workflow documented in README.md.                      *)
(*                                                                         *)
(* Go strings are sequences of code points.  Go errors are TLA+ strings,   *)
(* "nil" being the nil error.  A Go int is a little-endian sequence of     *)
(* 32-bit words (one word on 386, two on amd64 and arm64), every word held *)
(* as a signed 32-bit number, so that a 32-bit store into a 64-bit int is  *)
(* modelled at its real width.                                             *)
(***************************************************************************)
EXTENDS Integers, Sequences, FiniteSets, TLC

\* ------------------------------------------------------------------ bounds
MaxStrLen == 2
MaxChunks == 2

\* ------------------------------------------------------------- Go strings
\* NUL, '.', '1' and U+1F600 (a rune outside the basic plane)
Alphabet == {0, 46, 49, 128512}

RECURSIVE SeqsUpTo(_, _)
SeqsUpTo(S, n) ==
    IF n = 0 THEN {<<>>}
    ELSE LET shorter == SeqsUpTo(S, n - 1)
         IN  shorter \cup {Append(s, c) : s \in {t \in shorter : Len(t) = n - 1}, c \in S}

Strings == SeqsUpTo(Alphabet, MaxStrLen)

HasNUL(s) == \E i \in 1..Len(s) : s[i] = 0

\* unicode/utf16.Encode, one rune: a rune below 0x10000 is one unit, any
\* other rune a surrogate pair.
EncodeRune(r) ==
    IF r < 65536 THEN <<r>>
    ELSE <<55296 + ((r - 65536) \div 1024), 56320 + ((r - 65536) % 1024)>>

RECURSIVE Encode(_)
Encode(s) == IF s = <<>> THEN <<>> ELSE EncodeRune(Head(s)) \o Encode(Tail(s))

\* syscall.UTF16PtrFromString: EINVAL when the string holds a NUL, else a
\* pointer to the NUL-terminated UTF-16 encoding.
UTF16PtrFromString(s) ==
    IF HasNUL(s) THEN [ptr |-> <<>>, err |-> "EINVAL"]
    ELSE [ptr |-> Encode(s) \o <<0>>, err |-> "nil"]

\* ---------------------------------------------------------------- Go int
GOARCH == {"386", "amd64", "arm64"}

IntWords(arch) == IF arch = "386" THEN 1 ELSE 2

\* The Go int holding the small number n.
GoInt(n, arch) ==
    IF IntWords(arch) = 1 THEN <<n>> ELSE <<n, IF n < 0 THEN -1 ELSE 0>>

\* unsigned comparison of two 32-bit words held as signed numbers
ULess(x, y) == IF (x < 0) = (y < 0) THEN x < y ELSE y < 0

\* signed comparison of two Go ints of the same width
IntLess(a, b) ==
    IF Len(a) = 1 THEN a[1] < b[1]
    ELSE a[2] < b[2] \/ (a[2] = b[2] /\ ULess(a[1], b[1]))

\* A callee that stores a 32-bit integer through a pointer to the slot
\* overwrites the slot's low word only.
StoreInt32(slot, w) == [slot EXCEPT ![1] = w]

\* ------------------------------------------------------------ IsOlderThan
Sentinel == 9

\* What CompareBrowserVersions (WebView2Loader.dll) may do with the result
\* pointer: store a 32-bit verdict or store nothing; Call's last error is
\* an Errno and never the nil error.
Int32Samples == {-2, -1, 0, 1, 2}
Errnos == {"Errno(0)", "Errno(87)"}
CompareOutcomes ==
    [wrote : {TRUE}, value : Int32Samples, lastErr : Errnos]
      \cup [wrote : {FALSE}, value : {0}, lastErr : Errnos]

\* as OutOfRange, without the lower limit
OutOfRangeMutant(result, arch) == IntLess(GoInt(1, arch), result)
OutOfRange(result, arch) ==
    IntLess(result, GoInt(-1, arch)) \/ IntLess(GoInt(1, arch), result)

IsOlderThan(Version, requiredVersion, arch, cmp) ==
    LET v1 == UTF16PtrFromString(Version)
        v2 == UTF16PtrFromString(requiredVersion)
        init == GoInt(Sentinel, arch)
        result == IF cmp.wrote THEN StoreInt32(init, cmp.value) ELSE init
    IN  IF v1.err # "nil"
          THEN [ok |-> FALSE, err |-> v1.err, called |-> FALSE, slot |-> init]
        ELSE IF v2.err # "nil"
          THEN [ok |-> FALSE, err |-> v2.err, called |-> FALSE, slot |-> init]
        ELSE IF OutOfRange(result, arch)
          THEN [ok |-> FALSE, err |-> cmp.lastErr, called |-> TRUE, slot |-> result]
        ELSE [ok |-> result = GoInt(-1, arch), err |-> "nil", called |-> TRUE,
              slot |-> result]

\* ------------------------------------------------------------- MessageBox
MB_OKCANCEL == 1
MB_ICONERROR == 16
IDOK == 1
\* 0 (the call failed), IDOK, IDCANCEL
ButtonCodes == {0, 1, 2}

\* button is what MessageBoxW returns when the dialog is shown.
MessageBox(caption, title, flags, button) ==
    LET captionUTF16 == UTF16PtrFromString(caption)
        titleUTF16 == UTF16PtrFromString(title)
    IN  IF captionUTF16.err # "nil"
          THEN [ret |-> -1, err |-> captionUTF16.err, shown |-> FALSE,
                flags |-> flags, text |-> <<>>, head |-> <<>>]
        ELSE IF titleUTF16.err # "nil"
          THEN [ret |-> -1, err |-> titleUTF16.err, shown |-> FALSE,
                flags |-> flags, text |-> <<>>, head |-> <<>>]
        ELSE [ret |-> button, err |-> "nil", shown |-> TRUE, flags |-> flags,
              text |-> captionUTF16.ptr, head |-> titleUTF16.ptr]

ConfirmFlags == MB_OKCANCEL

\* as ConfirmResult, taking every code but Cancel for OK
ConfirmResultMutant(result) == result # 2
ConfirmResult(result) == result = IDOK

Confirm(caption, title, button) ==
    LET mb == MessageBox(caption, title, ConfirmFlags, button)
    IN  IF mb.err # "nil" THEN [ok |-> FALSE, err |-> mb.err, mb |-> mb]
        ELSE [ok |-> ConfirmResult(mb.ret), err |-> "nil", mb |-> mb]

Error(caption, title, button) ==
    LET mb == MessageBox(caption, title, MB_ICONERROR, button)
    IN  [err |-> mb.err, mb |-> mb]

\* ---------------------------------------------------- GetInstalledVersion
KeyWOW == "SOFTWARE\\WOW6432Node\\Microsoft\\EdgeUpdate\\Clients\\{F3017226-FE2A-4295-8BDF-00C3A9A7E4C5}"
Key386 == "SOFTWARE\\Microsoft\\EdgeUpdate\\Clients\\{F3017226-FE2A-4295-8BDF-00C3A9A7E4C5}"
KeyPaths == {KeyWOW, Key386}
ValueNames == {"location", "name", "pv", "SilentUninstall"}

\* The data a registry value may hold: none (the value is missing), a
\* non-string (REG_DWORD) or a string.  "C:", "W", "u"; versions "1", "90".
StringsOf(name) ==
    CASE name = "location" -> {<<67, 58>>}
      [] name = "name" -> {<<87>>}
      [] name = "pv" -> {<<49>>, <<57, 48>>}
      [] OTHER -> {<<117>>}
RegData(name) ==
    {[kind |-> "missing", val |-> <<>>], [kind |-> "dword", val |-> <<>>]}
      \cup {[kind |-> "sz", val |-> v] : v \in StringsOf(name)}
KeyValues ==
    {f \in [ValueNames -> UNION {RegData(n) : n \in ValueNames}] :
        \A n \in ValueNames : f[n] \in RegData(n)}
NoValues == [n \in ValueNames |-> [kind |-> "missing", val |-> <<>>]]
KeyStates ==
    {[present |-> FALSE, values |-> NoValues]}
      \cup {[present |-> TRUE, values |-> f] : f \in KeyValues}
Registries == [KeyPaths -> KeyStates]

regkey(arch) == IF arch = "386" THEN Key386 ELSE KeyWOW

\* registry.Key.GetStringValue through getKeyValue, which drops the error:
\* the string, or "" for a value that is missing or not a string.
getKeyValue(k, name) ==
    IF k.values[name].kind = "sz" THEN k.values[name].val ELSE <<>>

NilInfo ==
    [nil |-> TRUE, Location |-> <<>>, Name |-> <<>>, Version |-> <<>>,
     SilentUninstall |-> <<>>]

\* as GetInstalledVersion, but a record without a version counts as absent
GetInstalledVersionMutant(reg, arch) ==
    LET k == reg[regkey(arch)]
    IN  IF ~k.present \/ k.values["pv"].kind # "sz" THEN NilInfo
        ELSE [nil |-> FALSE,
              Location |-> getKeyValue(k, "location"),
              Name |-> getKeyValue(k, "name"),
              Version |-> getKeyValue(k, "pv"),
              SilentUninstall |-> getKeyValue(k, "SilentUninstall")]

GetInstalledVersion(reg, arch) ==
    LET k == reg[regkey(arch)]
    IN  IF ~k.present THEN NilInfo
        ELSE [nil |-> FALSE,
              Location |-> getKeyValue(k, "location"),
              Name |-> getKeyValue(k, "name"),
              Version |-> getKeyValue(k, "pv"),
              SilentUninstall |-> getKeyValue(k, "SilentUninstall")]

\* ------------------------------------------------ InstallUsingBootstrapper
\* two threads: the caller, and one that calls InstallUsingBootstrapper
\* concurrently
Threads == {1, 2}
\* the thread that runs BootstrapRuntime
Main == CHOOSE t \in Threads : \A u \in Threads : t <= u

\* filepath.Join(os.TempDir(), `MicrosoftEdgeWebview2Setup.exe`): the same
\* path in every invocation on a host.
\* as installer, with a name of the invocation's own
installerMutant(t) == <<"%TMP%\\MicrosoftEdgeWebview2Setup.exe", t>>
installer(t) == <<"%TMP%\\MicrosoftEdgeWebview2Setup.exe", 0>>
Paths == {installer(t) : t \in Threads}

\* The response body is a sequence of chunks, each written by one Write:
\* chunk i of the bootstrapper is i, and a response may be cut short.
Payloads == {[i \in 1..n |-> i] : n \in 0..MaxChunks}

\* A write of one chunk at offset off (in chunks); a gap reads as zeros.
RECURSIVE Zeros(_)
Zeros(n) == IF n = 0 THEN <<>> ELSE Append(Zeros(n - 1), 0)
WriteAt(data, off, c) ==
    IF off < Len(data) THEN [data EXCEPT ![off + 1] = c]
    ELSE data \o Zeros(off - Len(data)) \o <<c>>

\* What cmd.Wait may return: nil (the child exited with code 0), an
\* *exec.ExitError (it exited with another code), or another error, with
\* which the exit code is not known (code -1 here).
WaitOutcomes ==
    {[err |-> "nil", code |-> 0], [err |-> "ExitError", code |-> 1],
     [err |-> "ExitError", code |-> 2], [err |-> "WaitErr", code |-> -1]}

NoInvocation ==
    [path |-> installer(1), open |-> FALSE, off |-> 0, body |-> <<>>,
     payload |-> <<>>, result |-> FALSE, err |-> "nil", defers |-> <<>>,
     failed |-> "none", stepErr |-> "nil", started |-> FALSE,
     launched |-> <<>>, alone |-> TRUE,
     wait |-> [err |-> "none", code |-> -1]]

VARIABLES
    call,   \* the last call of IsOlderThan, GetInstalledVersion, Confirm,
            \* Error or MessageBox: its inputs and what it returned
    pc,     \* pc[t]: where thread t is in InstallUsingBootstrapper
    inv,    \* inv[t]: the locals of thread t's invocation, and its history
    fs,     \* fs[p]: the file at path p
    wf,     \* where the main thread is in BootstrapRuntime
    wfv,    \* the locals of BootstrapRuntime
    trace   \* the operations BootstrapRuntime has invoked, with their results

installVars == <<pc, inv, fs>>
wfVars == <<wf, wfv, trace>>
vars == <<call, pc, inv, fs, wf, wfv, trace>>

NoCall == [op |-> "none"]
NoWfv ==
    [installedVersion |-> NilInfo, arch |-> "386", shouldInstall |-> TRUE,
     message |-> <<>>, err |-> "nil", returned |-> "nil"]

Init ==
    /\ call = NoCall
    /\ pc = [t \in Threads |-> "idle"]
    /\ inv = [t \in Threads |-> NoInvocation]
    /\ fs = [p \in Paths |-> [exists |-> FALSE, data |-> <<>>]]
    /\ wf = "start"
    /\ wfv = NoWfv
    /\ trace = <<>>

\* --- the calls without shared state, each one step.  They keep no state
\* from one call to the next, so a run makes one such call, from the
\* initial state.
Fresh == call = NoCall /\ \A t \in Threads : pc[t] = "idle"

CallIsOlderThan ==
    /\ Fresh
    /\ \E v \in Strings, r \in Strings, arch \in GOARCH, cmp \in CompareOutcomes :
           /\ call' = [op |-> "IsOlderThan", Version |-> v, requiredVersion |-> r,
                       arch |-> arch, cmp |-> cmp, out |-> IsOlderThan(v, r, arch, cmp)]
           /\ UNCHANGED <<installVars, wfVars>>

CallGetInstalledVersion ==
    /\ Fresh
    /\ \E reg \in Registries, arch \in GOARCH :
           /\ call' = [op |-> "GetInstalledVersion", reg |-> reg, arch |-> arch,
                       out |-> GetInstalledVersion(reg, arch)]
           /\ UNCHANGED <<installVars, wfVars>>

CallConfirm ==
    /\ Fresh
    /\ \E c \in Strings, ti \in Strings, b \in ButtonCodes :
           /\ call' = [op |-> "Confirm", caption |-> c, title |-> ti, button |-> b,
                       out |-> Confirm(c, ti, b)]
           /\ UNCHANGED <<installVars, wfVars>>

CallError ==
    /\ Fresh
    /\ \E c \in Strings, ti \in Strings, b \in ButtonCodes :
           /\ call' = [op |-> "Error", caption |-> c, title |-> ti, button |-> b,
                       out |-> Error(c, ti, b)]
           /\ UNCHANGED <<installVars, wfVars>>

\* --- InstallUsingBootstrapper, one step per call that touches the file,
\* the network or the child process
Set(t, changes) == inv' = [inv EXCEPT ![t] = changes @@ inv[t]]

\* return r, e: the named results are set, then the deferred calls run
ReturnStmt(t, r, e, more) ==
    /\ Set(t, [result |-> r, err |-> e] @@ more)
    /\ pc' = [pc EXCEPT ![t] = "defer"]

Fail(t, step, e) ==
    ReturnStmt(t, FALSE, e, [failed |-> step, stepErr |-> e])

BeginInstall(t) ==
    /\ call = NoCall
    /\ pc[t] = "idle"
    /\ pc' = [pc EXCEPT ![t] = "create"]
    /\ inv' = [inv EXCEPT ![t] = [NoInvocation EXCEPT !.path = installer(t)]]
    /\ UNCHANGED fs

InstallCall(t) == BeginInstall(t) /\ UNCHANGED <<call, wfVars>>

\* out, err := os.Create(installer): the file is created or truncated
Create(t) ==
    /\ pc[t] = "create"
    /\ \E e \in {"nil", "CreateErr"} :
         IF e = "nil"
           THEN /\ fs' = [fs EXCEPT ![inv[t].path] = [exists |-> TRUE, data |-> <<>>]]
                /\ Set(t, [open |-> TRUE, off |-> 0, err |-> "nil",
                           defers |-> <<"out.Close">>])
                /\ pc' = [pc EXCEPT ![t] = "get"]
           ELSE Fail(t, "create", e) /\ UNCHANGED fs
    /\ UNCHANGED <<call, wfVars>>

\* resp, err := http.Get(bootstrapperURL)
HttpGet(t) ==
    /\ pc[t] = "get"
    /\ \/ \E body \in Payloads :
            /\ Set(t, [body |-> body, payload |-> body, err |-> "nil",
                       defers |-> Append(inv[t].defers, "Body.Close")])
            /\ pc' = [pc EXCEPT ![t] = "copy"]
       \/ Fail(t, "get", "GetErr")
    /\ UNCHANGED <<fs, call, wfVars>>

\* _, err = io.Copy(out, resp.Body), one chunk: a Read, then a Write at the
\* handle's own offset
CopyChunk(t) ==
    /\ pc[t] = "copy"
    /\ inv[t].body # <<>>
    /\ \E e \in {"nil", "CopyErr"} :
         IF e = "nil"
           THEN /\ fs' = [fs EXCEPT ![inv[t].path].data =
                             WriteAt(@, inv[t].off, Head(inv[t].body))]
                /\ Set(t, [off |-> inv[t].off + 1, body |-> Tail(inv[t].body)])
                /\ UNCHANGED pc
           ELSE Fail(t, "copy", e) /\ UNCHANGED fs
    /\ UNCHANGED <<call, wfVars>>

\* io.Copy reaches the end of the body, or the last Read fails
CopyEOF(t) ==
    /\ pc[t] = "copy"
    /\ inv[t].body = <<>>
    /\ \/ Set(t, [err |-> "nil"]) /\ pc' = [pc EXCEPT ![t] = "close"]
       \/ Fail(t, "copy", "CopyErr")
    /\ UNCHANGED <<fs, call, wfVars>>

\* (*os.File).Close: an error when the file is closed already; the handle
\* is closed afterwards whatever Close returns.
CloseErrs(open) == IF open THEN {"nil", "CloseErr"} ELSE {"ErrClosed"}

\* err = out.Close()
Close(t) ==
    /\ pc[t] = "close"
    /\ \E e \in CloseErrs(inv[t].open) :
         IF e = "nil"
           THEN /\ Set(t, [open |-> FALSE, err |-> "nil"])
                /\ pc' = [pc EXCEPT ![t] = "start"]
           ELSE ReturnStmt(t, FALSE, e,
                           [open |-> FALSE, failed |-> "close", stepErr |-> e])
    /\ UNCHANGED <<fs, call, wfVars>>

\* cmd.Start(): the file at the path, as it is now, is run.  alone records
\* whether no handle of another invocation was open on it.
Start(t) ==
    /\ pc[t] = "start"
    /\ \/ /\ Set(t, [started |-> TRUE, launched |-> fs[inv[t].path].data,
                     alone |-> \A u \in Threads \ {t} :
                                  ~(inv[u].open /\ inv[u].path = inv[t].path)])
          /\ pc' = [pc EXCEPT ![t] = "wait"]
       \/ Fail(t, "start", "StartErr")
    /\ UNCHANGED <<fs, call, wfVars>>

\* what lines 112-119 return after cmd.Wait() returned w
WaitResult(w) ==
    IF w.err # "nil" /\ w.err = "ExitError" THEN w.code = 0 ELSE TRUE

Wait(t) ==
    /\ pc[t] = "wait"
    /\ \E w \in WaitOutcomes : ReturnStmt(t, WaitResult(w), "nil", [wait |-> w])
    /\ UNCHANGED <<fs, call, wfVars>>

Top(t) == inv[t].defers[Len(inv[t].defers)]
Pop(t) == SubSeq(inv[t].defers, 1, Len(inv[t].defers) - 1)

\* defer func(Body io.ReadCloser) { err = Body.Close() }(resp.Body)
DeferBodyClose(t) ==
    /\ pc[t] = "defer"
    /\ inv[t].defers # <<>>
    /\ Top(t) = "Body.Close"
    /\ \E e \in {"nil", "BodyCloseErr"} : Set(t, [err |-> e, defers |-> Pop(t)])
    /\ UNCHANGED <<pc, fs, call, wfVars>>

\* defer func(out *os.File) { err = out.Close() }(out)
DeferOutClose(t) ==
    /\ pc[t] = "defer"
    /\ inv[t].defers # <<>>
    /\ Top(t) = "out.Close"
    /\ \E e \in CloseErrs(inv[t].open) :
         Set(t, [err |-> e, open |-> FALSE, defers |-> Pop(t)])
    /\ UNCHANGED <<pc, fs, call, wfVars>>

\* the deferred calls have run: (result, err) go to the caller
Return(t) ==
    /\ pc[t] = "defer"
    /\ inv[t].defers = <<>>
    /\ pc' = [pc EXCEPT ![t] = "done"]
    /\ UNCHANGED <<inv, fs, call, wfVars>>

InstallStep(t) ==
    \/ Create(t) \/ HttpGet(t) \/ CopyChunk(t) \/ CopyEOF(t) \/ Close(t)
    \/ Start(t) \/ Wait(t) \/ DeferBodyClose(t) \/ DeferOutClose(t) \/ Return(t)

\* One thread calls the package's functions, one call after another.
Next ==
    \/ CallIsOlderThan
    \/ CallGetInstalledVersion
    \/ CallConfirm
    \/ CallError
    \/ InstallCall(Main)
    \/ InstallStep(Main)

Spec == Init /\ [][Next]_vars

\* Every thread calls InstallUsingBootstrapper, with no synchronisation.
NextConcurrent == \E t \in Threads : InstallCall(t) \/ InstallStep(t)

SpecConcurrent == Init /\ [][NextConcurrent]_vars

\* ------------------------------------------- BootstrapRuntime (README.md)
\* "90.0.818.66"
RequiredVersion ==
    <<57, 48, 46, 48, 46, 56, 49, 56, 46, 54, 54>>
\* "The WebView2 runtime is required. Press Ok to install."
MessageRequired ==
    <<84, 104, 101, 32, 87, 101, 98, 86, 105, 101, 119, 50, 32, 114, 117,
      110, 116, 105, 109, 101, 32, 105, 115, 32, 114, 101, 113, 117, 105,
      114, 101, 100, 46, 32, 80, 114, 101, 115, 115, 32, 79, 107, 32, 116,
      111, 32, 105, 110, 115, 116, 97, 108, 108, 46>>
\* "The WebView2 runtime needs updating. Press Ok to install."
MessageUpdate ==
    <<84, 104, 101, 32, 87, 101, 98, 86, 105, 101, 119, 50, 32, 114, 117,
      110, 116, 105, 109, 101, 32, 110, 101, 101, 100, 115, 32, 117, 112,
      100, 97, 116, 105, 110, 103, 46, 32, 80, 114, 101, 115, 115, 32, 79,
      107, 32, 116, 111, 32, 105, 110, 115, 116, 97, 108, 108, 46>>
\* "Missing Requirements"
TitleMissing ==
    <<77, 105, 115, 115, 105, 110, 103, 32, 82, 101, 113, 117, 105, 114, 101,
      109, 101, 110, 116, 115>>
\* "Error"
TitleError ==
    <<69, 114, 114, 111, 114>>
\* "The runtime failed to install correctly. Please try again."
MessageFailed ==
    <<84, 104, 101, 32, 114, 117, 110, 116, 105, 109, 101, 32, 102, 97, 105,
      108, 101, 100, 32, 116, 111, 32, 105, 110, 115, 116, 97, 108, 108, 32,
      99, 111, 114, 114, 101, 99, 116, 108, 121, 46, 32, 80, 108, 101, 97,
      115, 101, 32, 116, 114, 121, 32, 97, 103, 97, 105, 110, 46>>

\* err.Error(): the text of an error, which holds no NUL.  The model keeps
\* the message of the underlying error.
ErrorText(e) ==
    CASE e = "EINVAL" -> <<105, 110, 118, 97, 108, 105, 100, 32, 97, 114, 103, 117, 109, 101, 110, 116>>
      [] e = "Errno(0)" -> <<84, 104, 101, 32, 111, 112, 101, 114, 97, 116, 105, 111, 110, 32, 99, 111, 109, 112, 108, 101, 116, 101, 100, 32, 115, 117, 99, 99, 101, 115, 115, 102, 117, 108, 108, 121, 46>>
      [] e = "Errno(87)" -> <<84, 104, 101, 32, 112, 97, 114, 97, 109, 101, 116, 101, 114, 32, 105, 115, 32, 105, 110, 99, 111, 114, 114, 101, 99, 116, 46>>
      [] e = "ErrClosed" -> <<102, 105, 108, 101, 32, 97, 108, 114, 101, 97, 100, 121, 32, 99, 108, 111, 115, 101, 100>>
      [] OTHER -> <<65, 99, 99, 101, 115, 115, 32, 105, 115, 32, 100, 101, 110, 105, 101, 100, 46>>

\* line 31: if installedVersion != nil
AfterGet(info) == IF info.nil THEN "check" ELSE "older"

\* line 41: if shouldInstall
\* as Proceed, asking the user whatever IsOlderThan said
ProceedMutant(shouldInstall) == TRUE
Proceed(shouldInstall) == shouldInstall

Returns(e) == wf' = "returned" /\ wfv' = [wfv EXCEPT !.returned = e]

\* line 30: installedVersion := webview2runtime.GetInstalledVersion()
WfGetInstalledVersion ==
    /\ wf = "start"
    /\ \E reg \in Registries, arch \in GOARCH :
         LET info == GetInstalledVersion(reg, arch)
         IN  /\ wfv' = [wfv EXCEPT !.installedVersion = info, !.arch = arch,
                                   !.shouldInstall = TRUE,
                                   !.message = MessageRequired]
             /\ trace' = Append(trace, [op |-> "GetInstalledVersion",
                                        nil |-> info.nil, ok |-> FALSE,
                                        err |-> "nil", shown |-> FALSE])
             /\ wf' = AfterGet(info)
    /\ UNCHANGED <<call, installVars>>

\* lines 32-39: IsOlderThan, and on an error the Error dialog and return
WfIsOlderThan ==
    /\ wf = "older"
    /\ \E cmp \in CompareOutcomes, b \in ButtonCodes :
         LET r == IsOlderThan(wfv.installedVersion.Version, RequiredVersion,
                              wfv.arch, cmp)
             d == Error(ErrorText(r.err), TitleError, b)
             t1 == Append(trace, [op |-> "IsOlderThan", nil |-> FALSE,
                                  ok |-> r.ok, err |-> r.err, shown |-> FALSE])
         IN  IF r.err # "nil"
               THEN /\ trace' = Append(t1, [op |-> "Error", nil |-> FALSE,
                                            ok |-> FALSE, err |-> d.err,
                                            shown |-> d.mb.shown])
                    /\ wf' = "returned"
                    /\ wfv' = [wfv EXCEPT !.shouldInstall = r.ok, !.err = r.err,
                                          !.returned = r.err]
               ELSE /\ trace' = t1
                    /\ wf' = "check"
                    /\ wfv' = [wfv EXCEPT !.shouldInstall = r.ok,
                                 !.message = IF r.ok THEN MessageUpdate ELSE @]
    /\ UNCHANGED <<call, installVars>>

\* lines 41-46: Confirm
WfConfirm ==
    /\ wf = "check"
    /\ Proceed(wfv.shouldInstall)
    /\ \E b \in ButtonCodes :
         LET c == Confirm(wfv.message, TitleMissing, b)
         IN  /\ trace' = Append(trace, [op |-> "Confirm", nil |-> FALSE,
                                        ok |-> c.ok, err |-> c.err,
                                        shown |-> c.mb.shown])
             /\ IF c.err # "nil" THEN Returns(c.err)
                ELSE IF c.ok THEN wf' = "install" /\ UNCHANGED wfv
                ELSE Returns("nil")
    /\ UNCHANGED <<call, installVars>>

\* line 41 not taken: return nil
WfSkip ==
    /\ wf = "check"
    /\ ~Proceed(wfv.shouldInstall)
    /\ Returns("nil")
    /\ UNCHANGED <<call, installVars, trace>>

\* line 47: webview2runtime.InstallUsingBootstrapper() is called
WfInstall ==
    /\ wf = "install"
    /\ BeginInstall(Main)
    /\ wf' = "installing"
    /\ trace' = Append(trace, [op |-> "InstallUsingBootstrapper", nil |-> FALSE,
                               ok |-> FALSE, err |-> "nil", shown |-> FALSE])
    /\ UNCHANGED <<call, wfv>>

\* lines 48-55: InstallUsingBootstrapper has returned
WfInstalled ==
    /\ wf = "installing"
    /\ pc[Main] = "done"
    /\ \E b \in ButtonCodes :
         LET installedCorrectly == inv[Main].result
             err == inv[Main].err
             d == Error(IF err # "nil" THEN ErrorText(err) ELSE MessageFailed,
                        TitleError, b)
             shown == [op |-> "Error", nil |-> FALSE, ok |-> FALSE,
                       err |-> d.err, shown |-> d.mb.shown]
         IN  IF err # "nil" THEN trace' = Append(trace, shown) /\ Returns(err)
             ELSE IF ~installedCorrectly
               THEN trace' = Append(trace, shown) /\ Returns(d.err)
             ELSE UNCHANGED trace /\ Returns("nil")
    /\ UNCHANGED <<call, installVars>>

NextWorkflow ==
    \/ WfGetInstalledVersion
    \/ WfIsOlderThan
    \/ WfConfirm
    \/ WfSkip
    \/ WfInstall
    \/ InstallStep(Main)
    \/ WfInstalled

SpecWorkflow == Init /\ [][NextWorkflow]_vars

\* ================================================================ claims
Done(t) == pc[t] = "done"
Exited(t) == inv[t].started /\ inv[t].wait.err \in {"nil", "ExitError"}

\* C1: when the download was written and closed and the child was started
\* and has exited, InstallUsingBootstrapper returns (true, nil) for exit
\* code 0 and (false, nil) for any other exit code.
C1_ExitCodeResult ==
    \A t \in Threads :
        Done(t) /\ Exited(t) =>
            /\ inv[t].result = (inv[t].wait.code = 0)
            /\ inv[t].err = "nil"

\* C2: when cmd.Start fails, InstallUsingBootstrapper returns false and the
\* launch error itself.
C2_LaunchError ==
    \A t \in Threads :
        Done(t) /\ inv[t].failed = "start" =>
            /\ inv[t].result = FALSE
            /\ inv[t].err = "StartErr"

\* C3: when a step before the launch fails (create, fetch, copy, close) the
\* child is not started and InstallUsingBootstrapper returns false and the
\* non-nil error of that step.
C3_StepFailure ==
    \A t \in Threads :
        Done(t) /\ inv[t].failed \in {"create", "get", "copy", "close"} =>
            /\ ~inv[t].started
            /\ inv[t].result = FALSE
            /\ inv[t].err # "nil"
            /\ inv[t].err = inv[t].stepErr

Encodes(s) == ~HasNUL(s)

\* C4: for version strings that both encode, IsOlderThan returns (true, nil)
\* when the comparator stores -1 and (false, nil) when it stores 0 or 1.
C4_OlderThan ==
    (/\ call.op = "IsOlderThan"
     /\ Encodes(call.Version) /\ Encodes(call.requiredVersion)
     /\ call.cmp.wrote /\ call.cmp.value \in {-1, 0, 1})
    => /\ call.out.ok = (call.cmp.value = -1)
       /\ call.out.err = "nil"

InRangeSlots(arch) == {GoInt(n, arch) : n \in {-1, 0, 1}}

\* C5: IsOlderThan returns an error if and only if a version string fails to
\* encode or the result slot holds, after the call, a value outside
\* {-1, 0, 1} (the sentinel 9 when the comparator stored nothing); with an
\* error the result is false; when encoding fails the comparator is not
\* called.
C5_ErrorIff ==
    call.op = "IsOlderThan" =>
        LET encoded == Encodes(call.Version) /\ Encodes(call.requiredVersion)
        IN  /\ (call.out.err # "nil")
                 <=> (~encoded \/ call.out.slot \notin InRangeSlots(call.arch))
            /\ (call.out.err # "nil" => call.out.ok = FALSE)
            /\ (~encoded => ~call.out.called)
            /\ (encoded => call.out.called)

C5_Witness ==
    /\ call.op = "IsOlderThan"
    /\ Encodes(call.Version) /\ Encodes(call.requiredVersion)
    /\ ~call.cmp.wrote
    /\ call.arch = "amd64"
    /\ call.out.slot = <<Sentinel, 0>>
    /\ call.out.err # "nil"

StringOrEmpty(d) == IF d.kind = "sz" THEN d.val ELSE <<>>

C7_Confirm ==
    call.op = "Confirm" =>
        IF Encodes(call.caption) /\ Encodes(call.title)
          THEN /\ call.out.mb.shown
               /\ call.out.mb.flags = 1
               /\ call.out.err = "nil"
               /\ call.out.ok <=> (call.button = 1)
          ELSE /\ ~call.out.mb.shown
               /\ call.out.mb.ret = -1
               /\ call.out.err # "nil"
               /\ call.out.ok = FALSE

C7_Witness ==
    /\ call.op = "Confirm"
    /\ call.out.mb.shown
    /\ call.button = 2
    /\ call.out.ok = FALSE
    /\ call.out.err = "nil"

Ops(op) == {i \in 1..Len(trace) : trace[i].op = op}

\* C8: in BootstrapRuntime, InstallUsingBootstrapper is invoked only after
\* Confirm returned (true, nil); Confirm is invoked only when
\* GetInstalledVersion returned nil or IsOlderThan returned (true, nil);
\* when GetInstalledVersion returns nil, IsOlderThan is not called and the
\* run reaches Confirm; when IsOlderThan returns an error, neither Confirm
\* nor the installer is invoked and the workflow returns that error after
\* the Error dialog was shown.
C8_Workflow ==
    /\ \A i \in Ops("InstallUsingBootstrapper") :
         \E j \in Ops("Confirm") : j < i /\ trace[j].ok /\ trace[j].err = "nil"
    /\ \A i \in Ops("Confirm") :
         \/ \E j \in Ops("GetInstalledVersion") : j < i /\ trace[j].nil
         \/ \E j \in Ops("IsOlderThan") :
              j < i /\ trace[j].ok /\ trace[j].err = "nil"
    /\ \A i \in Ops("GetInstalledVersion") :
         trace[i].nil =>
            /\ Ops("IsOlderThan") = {}
            /\ Len(trace) > i => trace[i + 1].op = "Confirm"
            /\ wf = "returned" => Len(trace) > i
    /\ \A i \in Ops("IsOlderThan") :
         trace[i].err # "nil" =>
            /\ Ops("Confirm") = {}
            /\ Ops("InstallUsingBootstrapper") = {}
            /\ wf = "returned"
            /\ wfv.returned = trace[i].err
            /\ Len(trace) = i + 1
            /\ trace[i + 1].op = "Error" /\ trace[i + 1].shown

C8_Witness ==
    /\ wf = "returned"
    /\ Len(trace) >= 3
    /\ trace[1].op = "GetInstalledVersion" /\ ~trace[1].nil
    /\ trace[2].op = "IsOlderThan" /\ trace[2].ok
    /\ trace[3].op = "Confirm" /\ trace[3].ok
    /\ Ops("InstallUsingBootstrapper") # {}

\* C9: concurrent invocations of InstallUsingBootstrapper all use the same
\* path, with nothing to exclude one another: every invocation under way
\* works on, and launches, the file at the one path.
C9_SamePath ==
    \A t, u \in Threads :
        pc[t] # "idle" /\ pc[u] # "idle" => inv[t].path = inv[u].path

\* C9, the interleaving: a thread has written and closed its download and
\* has launched the file, on which no handle was open, and the content it
\* launched is not the payload it downloaded, because the other thread has
\* truncated or written the file.
C9_Witness ==
    \E t \in Threads :
        /\ pc[t] = "wait"
        /\ inv[t].payload # <<>>
        /\ inv[t].launched # inv[t].payload
        /\ inv[t].alone
        /\ \A u \in Threads : inv[u].path = inv[t].path
        /\ \E u \in Threads \ {t} : pc[u] # "idle"

\* C10: InstallUsingBootstrapper returns true only if the child was started
\* and is known to have exited with code 0: not when cmd.Wait returned an
\* error.
C10_TrueOnlyOnExitZero ==
    \A t \in Threads :
        Done(t) /\ inv[t].result = TRUE =>
            /\ inv[t].started
            /\ inv[t].wait.err = "nil"
            /\ inv[t].wait.code = 0
====
